---- MODULE Spec2Model ----
(***************************************************************************)
(* Model of smartapi-mcp: the merge engine (server.py merge_mcp_servers),  *)
(* the selection entry points (get_merged_mcp_server,                      *)
(* get_smart_mcp_server_with_routing) and the batch loaders of the router  *)
(* and progressive servers (router.py load_tools_batch).                   *)
(*                                                                         *)
(* Strings are sequences of one-character strings, so that the regular     *)
(* expression substitution and the f-string concatenation of the source    *)
(* are computed character by character.                                    *)
(***************************************************************************)
EXTENDS Integers, Sequences, FiniteSets, TLC

(***************************************************************************)
(* Bounds of the model.                                                    *)
(***************************************************************************)
MaxServers == 2
MaxIdListLen == 2
MaxBatchCalls == 2
MaxPermute == 3
MaxExclLen == 2
MaxCap == 2

(***************************************************************************)
(* Characters and the sanitisation of server.py:57-59.                     *)
(***************************************************************************)
UpperChars == <<"A", "B", "C", "D", "E", "F", "G", "H", "I", "J", "K", "L", "M",
                "N", "O", "P", "Q", "R", "S", "T", "U", "V", "W", "X", "Y", "Z">>

LowerChars == <<"a", "b", "c", "d", "e", "f", "g", "h", "i", "j", "k", "l", "m",
                "n", "o", "p", "q", "r", "s", "t", "u", "v", "w", "x", "y", "z">>

DigitChars == <<"0", "1", "2", "3", "4", "5", "6", "7", "8", "9">>

Range(s) == {s[i] : i \in DOMAIN s}

\* the character class [a-z0-9_-] of the pattern r"[^a-z0-9_-]"
AllowedChars == Range(LowerChars) \cup Range(DigitChars) \cup {"_", "-"}

\* str.lower() on one character
LowerChar(c) ==
    IF \E i \in DOMAIN UpperChars : UpperChars[i] = c
    THEN LowerChars[CHOOSE i \in DOMAIN UpperChars : UpperChars[i] = c]
    ELSE c

Lower(s) == [i \in DOMAIN s |-> LowerChar(s[i])]

\* the substitution left out: the string is passed through
ReSubIdentity(s) == s

\* re.sub(r"[^a-z0-9_-]", "_", s): one underscore per offending character
ReSub(s) == [i \in DOMAIN s |-> IF s[i] \in AllowedChars THEN s[i] ELSE "_"]

Sanitize(s) == ReSub(Lower(s))

\* getattr(server, "name", "unknown_api")
NoName == <<"?">>
UnknownApi == <<"u", "n", "k", "n", "o", "w", "n", "_", "a", "p", "i">>

ApiName(server) == Sanitize(IF server.name = NoName THEN UnknownApi ELSE server.name)

NewNameUnprefixed(api_name, original_name) == original_name

\* f"{api_name}_{original_name}"
NewName(api_name, original_name) == api_name \o <<"_">> \o original_name

(***************************************************************************)
(* merge_mcp_servers (server.py:38-85).  A server is a record              *)
(* [name, tools, prompts]: tools and prompts are the key sets of the       *)
(* dictionaries get_tools() and get_prompts() return.  The aggregate maps  *)
(* each final name to the position, in the input list, of the server the   *)
(* entry came from; FastMCP.add_tool replaces an entry of the same name.   *)
(***************************************************************************)
EmptyMap == [n \in {} |-> 0]

\* the names server i of the list adds: new_name for every key (server.py:63-69)
NewNames(server, keys) == {NewName(ApiName(server), k) : k \in keys}

\* the loop of server.py:56-83 adds the entries of the servers in list order
\* and add_tool replaces an entry of the same name, so a name ends up owned
\* by the last server of the list that adds it
Added(list, field) ==
    UNION {{<<n, i>> : n \in NewNames(list[i], list[i][field])} : i \in DOMAIN list}

LastAdder(added, n) ==
    CHOOSE i \in {p[2] : p \in {q \in added : q[1] = n}} :
        \A p \in added : p[1] = n => p[2] <= i

Merged(list, field) ==
    LET added == Added(list, field)
    IN  [n \in {p[1] : p \in added} |-> LastAdder(added, n)]

HasToollessFirstOnly(list) == list # <<>> /\ list[1].tools = {}

\* server.py:61-72: a server whose get_tools() is empty raises
HasToolless(list) == \E i \in DOMAIN list : list[i].tools = {}

merge_mcp_servers(list_of_servers) ==
    IF HasToolless(list_of_servers)
    THEN [status |-> "AttributeError", tools |-> EmptyMap, prompts |-> EmptyMap]
    ELSE [status |-> "ok", tools |-> Merged(list_of_servers, "tools"),
          prompts |-> Merged(list_of_servers, "prompts")]

(***************************************************************************)
(* get_mcp_server (server.py:27-35).  An id is a positive integer; 0 is    *)
(* the absent id.  The registry content is fixed: for each id the build    *)
(* either raises (the spec cannot be loaded or no base URL is found) or    *)
(* returns a server.                                                       *)
(***************************************************************************)
RECURSIVE Digits(_)
Digits(n) == IF n < 10 THEN <<DigitChars[n + 1]>> ELSE Digits(n \div 10) \o <<DigitChars[(n % 10) + 1]>>

FailingIds == {4}

\* an API titled "Load" with the operation "tools_batch"
LoaderLikeId == 60

RegistryServer(id) ==
    CASE id = 1 -> [name |-> <<"M", "y", " ", "A">>, tools |-> {<<"q">>, <<"g">>}, prompts |-> {<<"p">>}]
      [] id = 2 -> [name |-> <<"m", "y", "_", "a">>, tools |-> {<<"q">>}, prompts |-> {}]
      [] id = 3 -> [name |-> <<"E">>, tools |-> {}, prompts |-> {}]
      [] id = LoaderLikeId ->
             [name |-> <<"L", "o", "a", "d">>,
              tools |-> {<<"t", "o", "o", "l", "s", "_", "b", "a", "t", "c", "h">>},
              prompts |-> {}]
      [] OTHER  -> [name |-> <<"N">> \o Digits(id), tools |-> {<<"q">>}, prompts |-> {}]

get_mcp_server(smartapi_id) ==
    IF smartapi_id \in FailingIds
    THEN [status |-> "BuildError"]
    ELSE [status |-> "ok", server |-> RegistryServer(smartapi_id)]

(***************************************************************************)
(* Selection inputs.  None and the empty value are both falsy in Python    *)
(* and every test of the source is a truth test, so an absent string is    *)
(* "", an absent id is 0 and an absent list is <<>>.                       *)
(***************************************************************************)
large_api_threshold == 50
medium_api_threshold == 10

SmallIds == {1, 2, 3, 4}

RECURSIVE SeqsUpTo(_, _)
SeqsUpTo(S, n) ==
    IF n = 0 THEN {<<>>}
    ELSE LET shorter == SeqsUpTo(S, n - 1)
         IN  shorter \cup {Append(s, x) : s \in shorter, x \in S}

SmallLists == SeqsUpTo(SmallIds, MaxIdListLen)

\* the ids First, First + 1, ..., First + n - 1 in this order
IdRange(first, n) == [i \in 1..n |-> first + i - 1]

FirstLargeId == Cardinality(SmallIds) + 1

ThresholdSizes == {medium_api_threshold - 1, medium_api_threshold,
                   large_api_threshold - 1, large_api_threshold, large_api_threshold + 1}

LargeLists == {IdRange(FirstLargeId, n) : n \in ThresholdSizes}

(***************************************************************************)
(* get_predefined_api_set: the table of predefined sets, each an id list   *)
(* and/or a query and/or a default exclusion list.                         *)
(***************************************************************************)
PredefinedSets ==
    [n \in {"biothings_core", "biothings_test", "biothings_all"} |->
        CASE n = "biothings_core" -> [smartapi_ids |-> <<1, 2, 5, 6, 7>>]
          [] n = "biothings_test" -> [smartapi_ids |-> <<1, 2, 5, 6, 7, 8>>]
          [] n = "biothings_all"  -> [smartapi_q |-> "biothings",
                                      smartapi_exclude_ids |-> <<2, 9, 10, 11, 12>>]]

get_predefined_api_set(api_set) ==
    IF api_set \in DOMAIN PredefinedSets
    THEN [status |-> "ok", args |-> PredefinedSets[api_set]]
    ELSE [status |-> "UnknownApiSet", args |-> [unknown |-> api_set]]

(***************************************************************************)
(* get_smartapi_ids(q): the registry query, a network call.  It returns an *)
(* id list or raises.                                                      *)
(***************************************************************************)
QueryOutcomes ==
    {[raised |-> TRUE, ids |-> <<>>]} \cup
    {[raised |-> FALSE, ids |-> l] : l \in {<<>>, <<2, 1, 2>>}}

\* api_set=None, the default of both entry points (server.py:93, 134); no
\* predefined set has this name
NoApiSet == "None"

\* `if api_set:` (server.py:97, 148) is false for None and for the empty string
NoSetNamed(a) == a.api_set \in {NoApiSet, ""}

\* the arguments after a successful lookup of the predefined set
\* (server.py:99-104, 150-155)
Overridden(a, r) ==
    [status |-> "ok",
     smartapi_ids |-> IF "smartapi_ids" \in DOMAIN r.args
                      THEN r.args.smartapi_ids ELSE a.smartapi_ids,
     smartapi_q |-> IF "smartapi_q" \in DOMAIN r.args
                    THEN r.args.smartapi_q ELSE a.smartapi_q,
     smartapi_exclude_ids |-> IF "smartapi_exclude_ids" \in DOMAIN r.args
                              THEN r.args.smartapi_exclude_ids
                              ELSE a.smartapi_exclude_ids]

Untouched(a) ==
    [status |-> "ok", smartapi_ids |-> a.smartapi_ids, smartapi_q |-> a.smartapi_q,
     smartapi_exclude_ids |-> a.smartapi_exclude_ids]

\* the failed lookup swallowed: the call goes on as if no set were named
ApplyApiSetIgnoringUnknown(a) ==
    IF NoSetNamed(a) \/ get_predefined_api_set(a.api_set).status # "ok"
    THEN Untouched(a)
    ELSE Overridden(a, get_predefined_api_set(a.api_set))

\* server.py:97-104 and 148-155: the arguments after the predefined set
\* has been applied
ApplyApiSet(a) ==
    IF NoSetNamed(a)
    THEN Untouched(a)
    ELSE IF get_predefined_api_set(a.api_set).status # "ok"
    THEN [status |-> get_predefined_api_set(a.api_set).status, smartapi_ids |-> <<>>,
          smartapi_q |-> "", smartapi_exclude_ids |-> <<>>]
    ELSE Overridden(a, get_predefined_api_set(a.api_set))

\* whether get_smartapi_ids is awaited (server.py:109-110, 157-158)
QueryNeeded(a) == ApplyApiSet(a).status = "ok" /\ ApplyApiSet(a).smartapi_q # ""

\* server.py:109-112 with the explicit id tested before the query
ResolveFromQueryWins(a, qres, s) ==
    IF s.status # "ok"
    THEN [status |-> s.status, ids |-> <<>>, q |-> "", excl |-> <<>>]
    ELSE IF s.smartapi_q # "" /\ qres.raised
    THEN [status |-> "QueryError", ids |-> <<>>, q |-> s.smartapi_q, excl |-> <<>>]
    ELSE [status |-> "ok",
          ids |-> IF s.smartapi_q # "" THEN qres.ids
                  ELSE IF a.smartapi_id # 0 THEN <<a.smartapi_id>> ELSE s.smartapi_ids,
          q |-> s.smartapi_q,
          excl |-> s.smartapi_exclude_ids]

\* server.py:109-112 and 157-161, s being the arguments after the predefined
\* set has been applied
ResolveFrom(a, qres, s) ==
    IF s.status # "ok"
    THEN [status |-> s.status, ids |-> <<>>, q |-> "", excl |-> <<>>]
    ELSE IF s.smartapi_q # "" /\ qres.raised
    THEN [status |-> "QueryError", ids |-> <<>>, q |-> s.smartapi_q, excl |-> <<>>]
    ELSE [status |-> "ok",
          ids |-> IF a.smartapi_id # 0 THEN <<a.smartapi_id>>
                  ELSE IF s.smartapi_q # "" THEN qres.ids ELSE s.smartapi_ids,
          q |-> s.smartapi_q,
          excl |-> s.smartapi_exclude_ids]

\* server.py:97-112 and 148-161: the id list before deduplication
ResolveIds(a, qres) == ResolveFrom(a, qres, ApplyApiSet(a))

(***************************************************************************)
(* list(set(smartapi_ids)) (server.py:113-114): the order of the result is *)
(* the iteration order of a set of strings, which is any order.  Every     *)
(* order is modelled for sets of at most MaxPermute ids, the ascending and *)
(* the descending order for larger ones.                                   *)
(***************************************************************************)
\* every id of the model lies in 1..LastId
LastId == FirstLargeId + large_api_threshold

SortAsc(S) == SelectSeq(IdRange(1, LastId), LAMBDA x : x \in S)

Reverse(s) == [i \in DOMAIN s |-> s[Len(s) + 1 - i]]

Orders(S) ==
    IF Cardinality(S) <= MaxPermute
    THEN {f \in [1..Cardinality(S) -> S] : \A i, j \in DOMAIN f : f[i] = f[j] => i = j}
    ELSE {SortAsc(S), Reverse(SortAsc(S))}

\* the orders list(set(ids)) can produce; the list is left alone when empty
DedupOrders(ids) == IF ids = <<>> THEN {<<>>} ELSE Orders(Range(ids))

(***************************************************************************)
(* server.py:119-123: the list comprehension awaits get_mcp_server for     *)
(* every id not excluded, in order, and the first failing build ends it.   *)
(* built lists the ids get_mcp_server was called for.                      *)
(***************************************************************************)
InSeqFirstOnly(x, s) == s # <<>> /\ s[1] = x

\* sid in smartapi_exclude_ids
InSeq(x, s) == \E i \in DOMAIN s : s[i] = x

\* [sid for sid in smartapi_ids if sid not in smartapi_exclude_ids]
RECURSIVE Available(_, _)
Available(ids, excl) ==
    IF ids = <<>> THEN <<>>
    ELSE IF InSeq(Head(ids), excl) THEN Available(Tail(ids), excl)
         ELSE <<Head(ids)>> \o Available(Tail(ids), excl)

RECURSIVE BuildFrom(_, _, _, _, _)
BuildFrom(ids, i, excl, servers, built) ==
    IF i > Len(ids)
    THEN [status |-> "ok", servers |-> servers, built |-> built]
    ELSE IF InSeq(ids[i], excl)
    THEN BuildFrom(ids, i + 1, excl, servers, built)
    ELSE LET r == get_mcp_server(ids[i])
         IN  IF r.status # "ok"
             THEN [status |-> r.status, servers |-> <<>>, built |-> Append(built, ids[i])]
             ELSE BuildFrom(ids, i + 1, excl, Append(servers, r.server), Append(built, ids[i]))

\* the aggregate with each entry mapped to the id of the server it came from
OwnedBy(map, owners) == [n \in DOMAIN map |-> owners[map[n]]]

NoAggregate(status, ids, excl, built, queries) ==
    [status |-> status, ids |-> ids, excl |-> excl, built |-> built,
     tools |-> EmptyMap, prompts |-> EmptyMap, queries |-> queries]

\* server.py:124-126, b being the result of the builds
MergeBuilt(b, order, excl, queries) ==
    IF b.status # "ok" THEN NoAggregate(b.status, order, excl, b.built, queries)
    ELSE [status |-> merge_mcp_servers(b.servers).status, ids |-> order, excl |-> excl,
          built |-> b.built,
          tools |-> OwnedBy(merge_mcp_servers(b.servers).tools, b.built),
          prompts |-> OwnedBy(merge_mcp_servers(b.servers).prompts, b.built),
          queries |-> queries]

\* server.py:115-126 with the emptiness test made after the exclusion
BuildAndMergeEmptyAfterExclusion(r, order, queries) ==
    IF r.status # "ok" THEN NoAggregate(r.status, <<>>, <<>>, <<>>, queries)
    ELSE IF Available(order, r.excl) = <<>>
    THEN NoAggregate("NoApisSelected", order, r.excl, <<>>, queries)
    ELSE MergeBuilt(BuildFrom(order, 1, r.excl, <<>>, <<>>), order, r.excl, queries)

\* server.py:115-126, r being the resolved selection
BuildAndMerge(r, order, queries) ==
    IF r.status # "ok" THEN NoAggregate(r.status, <<>>, <<>>, <<>>, queries)
    ELSE IF order = <<>> THEN NoAggregate("NoApisSelected", <<>>, r.excl, <<>>, queries)
    ELSE MergeBuilt(BuildFrom(order, 1, r.excl, <<>>, <<>>), order, r.excl, queries)

(***************************************************************************)
(* get_merged_mcp_server (server.py:88-126).  qres is what the registry    *)
(* query does if it is awaited, order the order list(set(...)) gives.      *)
(***************************************************************************)
get_merged_mcp_server(a, qres, order) ==
    BuildAndMerge(ResolveIds(a, qres), order, IF QueryNeeded(a) THEN 1 ELSE 0)

(***************************************************************************)
(* The router and the progressive server (router.py:281-398).  A server is *)
(* [kind, smartapi_ids, max_tools, tools]; tools maps each tool name to    *)
(* the id of the API it was loaded from, 0 for the control tools.          *)
(***************************************************************************)
SearchToolName == <<"s", "e", "a", "r", "c", "h", "_", "s", "m", "a", "r", "t", "a", "p", "i">>
LoadToolName == <<"l", "o", "a", "d", "_", "t", "o", "o", "l", "s", "_", "b", "a", "t", "c", "h">>

NoServer == [kind |-> "none", smartapi_ids |-> <<>>, max_tools |-> 0, tools |-> EmptyMap]

\* router.py:305-315 left out: a router without its discovery tool
create_smart_router_server_NoSearch(smartapi_ids, max_tools) ==
    [kind |-> "router", smartapi_ids |-> smartapi_ids, max_tools |-> max_tools,
     tools |-> [n \in {LoadToolName} |-> 0]]

\* router.py:281-353; a control tool has owner 0, a loaded tool the id of
\* the API it came from

create_smart_router_server(smartapi_ids, max_tools) ==
    [kind |-> "router", smartapi_ids |-> smartapi_ids, max_tools |-> max_tools,
     tools |-> [n \in {SearchToolName, LoadToolName} |-> 0]]

create_progressive_server(smartapi_ids, max_tools) ==
    [kind |-> "progressive", smartapi_ids |-> smartapi_ids, max_tools |-> max_tools,
     tools |-> [n \in {LoadToolName} |-> 0]]

(***************************************************************************)
(* get_smart_mcp_server_with_routing (server.py:129-195).                  *)
(***************************************************************************)
StrategyAboveThreshold(smart_routing, n) ==
    IF smart_routing /\ n > large_api_threshold THEN "router"
    ELSE IF n > medium_api_threshold THEN "progressive"
    ELSE "full"

\* server.py:174-195: the strategy for n ids left after exclusion
Strategy(smart_routing, n) ==
    IF smart_routing /\ n >= large_api_threshold THEN "router"
    ELSE IF n >= medium_api_threshold THEN "progressive"
    ELSE "full"

\* server.py:163-185, r being the resolved selection
PlanFrom(r, smart_routing, queries) ==
    IF r.status # "ok"
    THEN [status |-> r.status, strategy |-> "none", available |-> <<>>,
          excl |-> <<>>, q |-> "", queries |-> queries]
    ELSE IF r.ids = <<>>
    THEN [status |-> "NoApisSelected", strategy |-> "none", available |-> <<>>,
          excl |-> r.excl, q |-> r.q, queries |-> queries]
    ELSE [status |-> "ok",
          strategy |-> Strategy(smart_routing, Len(Available(r.ids, r.excl))),
          available |-> Available(r.ids, r.excl), excl |-> r.excl, q |-> r.q,
          queries |-> queries]

\* server.py:148-185: everything up to the choice of the strategy
RoutingPlan(a, smart_routing, qres) ==
    PlanFrom(ResolveIds(a, qres), smart_routing, IF QueryNeeded(a) THEN 1 ELSE 0)

\* server.py:189-195: the arguments of the nested get_merged_mcp_server call
NestedArgs(a, plan) ==
    [api_set |-> a.api_set, smartapi_q |-> plan.q, smartapi_id |-> 0,
     smartapi_ids |-> plan.available, smartapi_exclude_ids |-> plan.excl]

\* the nested call's result, with the queries of the outer call counted
AddQueries(m, n) == [m EXCEPT !.queries = @ + n]

\* server.py:174-195, plan being the strategy chosen
RouteBy(plan, a, max_context_tools, qres2, order) ==
    IF plan.status # "ok"
    THEN [strategy |-> plan.strategy, available |-> plan.available, server |-> NoServer,
          merged |-> NoAggregate(plan.status, <<>>, plan.excl, <<>>, plan.queries)]
    ELSE IF plan.strategy = "router"
    THEN [strategy |-> plan.strategy, available |-> plan.available,
          server |-> create_smart_router_server(plan.available, max_context_tools),
          merged |-> NoAggregate("ok", <<>>, plan.excl, <<>>, plan.queries)]
    ELSE IF plan.strategy = "progressive"
    THEN [strategy |-> plan.strategy, available |-> plan.available,
          server |-> create_progressive_server(plan.available, max_context_tools),
          merged |-> NoAggregate("ok", <<>>, plan.excl, <<>>, plan.queries)]
    ELSE [strategy |-> plan.strategy, available |-> plan.available, server |-> NoServer,
          merged |-> AddQueries(get_merged_mcp_server(NestedArgs(a, plan), qres2, order),
                                plan.queries)]

get_smart_mcp_server_with_routing(a, smart_routing, max_context_tools, qres, qres2, order) ==
    RouteBy(RoutingPlan(a, smart_routing, qres), a, max_context_tools, qres2, order)

(***************************************************************************)
(* load_tools_batch (router.py:317-340 and 362-385).                       *)
(***************************************************************************)
\* the Python slice s[:n], for any integer n
PySlice(s, n) ==
    IF n >= 0
    THEN SubSeq(s, 1, IF n < Len(s) THEN n ELSE Len(s))
    ELSE SubSeq(s, 1, IF Len(s) + n > 0 THEN Len(s) + n ELSE 0)

\* router.py:321 and 366
BatchIds(server, api_ids) ==
    IF server.kind = "progressive" /\ api_ids = <<>>
    THEN PySlice(server.smartapi_ids, server.max_tools)
    ELSE PySlice(api_ids, server.max_tools)

\* router.py:325-331 and 370-376: every id of the batch is built, a failing
\* build is logged and skipped
RECURSIVE TryBuildFrom(_, _, _, _)
TryBuildFrom(ids, i, servers, owners) ==
    IF i > Len(ids)
    THEN [servers |-> servers, owners |-> owners]
    ELSE LET r == get_mcp_server(ids[i])
         IN  IF r.status # "ok"
             THEN TryBuildFrom(ids, i + 1, servers, owners)
             ELSE TryBuildFrom(ids, i + 1, Append(servers, r.server), Append(owners, ids[i]))

\* the loaded batch put in place of the server's tools
AddLoadedReplacing(tools, loaded) == loaded

\* router_server.add_tool(tool) for every tool of the merged batch
AddLoaded(tools, loaded) ==
    [n \in DOMAIN tools \cup DOMAIN loaded |-> IF n \in DOMAIN loaded THEN loaded[n] ELSE tools[n]]

BatchResult(status, report, batch_ids, built, owners, n_tools, tools) ==
    [status |-> status, report |-> report, batch_ids |-> batch_ids, built |-> built,
     owners |-> owners, n_tools |-> n_tools, tools |-> tools]

\* router.py:333-334 and 378-379 left out: the merge is attempted on
\* whatever was built
load_tools_batch_NoEmptyCheck(server, api_ids) ==
    LET batch_ids == BatchIds(server, api_ids)
    IN  IF batch_ids = <<>>
        THEN BatchResult("ok", "No API IDs provided to load.", batch_ids, <<>>, <<>>, 0, server.tools)
        ELSE LET b == TryBuildFrom(batch_ids, 1, <<>>, <<>>)
                 m == merge_mcp_servers(b.servers)
             IN  IF m.status # "ok"
                 THEN BatchResult(m.status, "", batch_ids, batch_ids, b.owners, 0, server.tools)
                 ELSE BatchResult("ok", "Loaded", batch_ids, batch_ids, b.owners,
                                  Cardinality(DOMAIN m.tools),
                                  AddLoaded(server.tools, OwnedBy(m.tools, b.owners)))

\* router.py:317-340 and 362-385

load_tools_batch(server, api_ids) ==
    LET batch_ids == BatchIds(server, api_ids)
    IN  IF batch_ids = <<>>
        THEN BatchResult("ok", "No API IDs provided to load.", batch_ids, <<>>, <<>>, 0, server.tools)
        ELSE LET b == TryBuildFrom(batch_ids, 1, <<>>, <<>>)
             IN  IF b.servers = <<>>
                 THEN BatchResult("ok", "No tools loaded.", batch_ids, batch_ids, <<>>, 0, server.tools)
                 ELSE LET m == merge_mcp_servers(b.servers)
                      IN  IF m.status # "ok"
                          THEN BatchResult(m.status, "", batch_ids, batch_ids, b.owners, 0,
                                           server.tools)
                          ELSE BatchResult("ok", "Loaded", batch_ids, batch_ids, b.owners,
                                           Cardinality(DOMAIN m.tools),
                                           AddLoaded(server.tools, OwnedBy(m.tools, b.owners)))

(***************************************************************************)
(* The search layer (router.py:27-232).  Texts are sequences of            *)
(* characters, as names are.                                               *)
(***************************************************************************)
\* `sub in s` for two Python strings
Contains(sub, s) ==
    \E i \in 1..(Len(s) - Len(sub) + 1) : SubSeq(s, i, i + Len(sub) - 1) = sub

\* the table of router.py:159-173
Categories ==
    [c \in {"bioinformatics", "clinical", "literature"} |->
        CASE c = "bioinformatics" ->
                {<<"g", "e", "n", "e">>,
                 <<"p", "r", "o", "t", "e", "i", "n">>,
                 <<"g", "e", "n", "o", "m", "i", "c">>,
                 <<"g", "e", "n", "o", "m", "e">>,
                 <<"s", "e", "q", "u", "e", "n", "c", "e">>,
                 <<"v", "a", "r", "i", "a", "n", "t">>,
                 <<"m", "u", "t", "a", "t", "i", "o", "n">>,
                 <<"p", "a", "t", "h", "w", "a", "y">>,
                 <<"b", "i", "o">>}
          [] c = "clinical" ->
                {<<"c", "l", "i", "n", "i", "c", "a", "l">>,
                 <<"p", "a", "t", "i", "e", "n", "t">>,
                 <<"p", "h", "e", "n", "o", "t", "y", "p", "e">>,
                 <<"d", "i", "s", "e", "a", "s", "e">>,
                 <<"t", "r", "i", "a", "l">>}
          [] c = "literature" ->
                {<<"l", "i", "t", "e", "r", "a", "t", "u", "r", "e">>,
                 <<"p", "u", "b", "l", "i", "c", "a", "t", "i", "o", "n">>,
                 <<"p", "a", "p", "e", "r">>,
                 <<"a", "b", "s", "t", "r", "a", "c", "t">>}]

\* load_api_spec(api_id): the info block of the API's document, or a failure
\* to load it.  Id 2 has no text at all, id 4 cannot be loaded.
SpecFailingIds == {4}

ApiInfo(id) ==
    CASE id = 1 -> [title |-> <<"G", "e", "n", "e">>, summary |-> <<>>, description |-> <<"D", "B">>]
      [] id = 2 -> [title |-> <<>>, summary |-> <<>>, description |-> <<>>]
      [] id = 3 -> [title |-> <<"T", "r", "i", "a", "l">>, summary |-> <<"o", "f">>, description |-> <<"p", "a", "p", "e", "r", "s">>]
      [] id = 5 -> [title |-> <<>>, summary |-> <<"B", "I", "O">>, description |-> <<>>]
      [] OTHER  -> [title |-> <<"N">> \o Digits(id), summary |-> <<>>, description |-> <<>>]

load_api_spec(api_id) ==
    IF api_id \in SpecFailingIds
    THEN [status |-> "SpecUnavailable"]
    ELSE [status |-> "ok", info |-> ApiInfo(api_id)]

\* " ".join(part for part in parts if part)
RECURSIVE JoinParts(_)
JoinParts(parts) ==
    IF parts = <<>> THEN <<>>
    ELSE IF Head(parts) = <<>> THEN JoinParts(Tail(parts))
    ELSE IF JoinParts(Tail(parts)) = <<>> THEN Head(parts)
    ELSE Head(parts) \o <<" ">> \o JoinParts(Tail(parts))

\* router.py:101-106: the text of one loaded API, the id itself when the
\* document has no text
Description(api_id) ==
    IF JoinParts(<<ApiInfo(api_id).title, ApiInfo(api_id).summary,
                   ApiInfo(api_id).description>>) # <<>>
    THEN JoinParts(<<ApiInfo(api_id).title, ApiInfo(api_id).summary,
                     ApiInfo(api_id).description>>)
    ELSE Digits(api_id)

\* the keys of the dict _build_api_descriptions returns, in insertion order:
\* the ids whose document loads, each at its first occurrence
RECURSIVE DescribedFrom(_, _, _)
DescribedFrom(smartapi_ids, i, keys) ==
    IF i > Len(smartapi_ids) THEN keys
    ELSE IF load_api_spec(smartapi_ids[i]).status # "ok" \/ InSeq(smartapi_ids[i], keys)
    THEN DescribedFrom(smartapi_ids, i + 1, keys)
    ELSE DescribedFrom(smartapi_ids, i + 1, Append(keys, smartapi_ids[i]))

\* router.py:93-107
_build_api_descriptions(smartapi_ids) ==
    [keys |-> DescribedFrom(smartapi_ids, 1, <<>>),
     text |-> [id \in Range(DescribedFrom(smartapi_ids, 1, <<>>)) |-> Description(id)]]

\* any(keyword in text for keyword in categories[category])
HasKeyword(category, text) == \E k \in Categories[category] : Contains(k, text)

\* router.py:174-179 without query.lower()
MatchedCategoriesCaseSensitive(query) ==
    {c \in DOMAIN Categories : HasKeyword(c, query)}

\* router.py:174-179
MatchedCategories(query) ==
    {c \in DOMAIN Categories : HasKeyword(c, Lower(query))}

\* router.py:184-190: the ids of one category, in the order of the descriptions
Bucket(category, d) ==
    SelectSeq(d.keys, LAMBDA id : HasKeyword(category, Lower(d.text[id])))

\* router.py:180-190, d being the descriptions; a category without an id
\* gets no key
RoutedBy(matched, d) ==
    [c \in {m \in matched : Bucket(m, d) # <<>>} |-> Bucket(c, d)]

\* _category_routing (router.py:158-190)
_category_routing(query, smartapi_ids) ==
    IF MatchedCategories(query) = {} THEN EmptyMap
    ELSE RoutedBy(MatchedCategories(query), _build_api_descriptions(smartapi_ids))

(***************************************************************************)
(* The on-disk cache (router.py:27-30): the id list, the descriptions and  *)
(* the index artifact, three files.  A file is missing, unusable (not      *)
(* parseable, or not of the expected type) or holds what a build wrote: the *)
(* id list it was written for.  The descriptions file holds the texts of   *)
(* these ids, the index one vector per id, in the order of the list.       *)
(***************************************************************************)
MissingFile == [state |-> "missing", ids |-> <<>>]
UnusableFile == [state |-> "unusable", ids |-> <<>>]
WrittenFile(ids) == [state |-> "ok", ids |-> ids]

NoCache == [ids |-> MissingFile, descriptions |-> MissingFile, index |-> MissingFile]

\* router.py:45-55: both files exist, parse, and are a list and a dict
_load_cached_descriptions(d) == d.ids.state = "ok" /\ d.descriptions.state = "ok"

\* router.py:64-72
_load_cached_index(d, avail) == avail /\ d.index.state = "ok"

\* router.py:60, 61 and 81: the three writes of a build, one file each
SaveIds(d, ids) == [d EXCEPT !.ids = WrittenFile(ids)]
SaveDescriptions(d, ids) == [d EXCEPT !.descriptions = WrittenFile(ids)]
SaveIndex(d, ids) == [d EXCEPT !.index = WrittenFile(ids)]

\* router.py:149-150
SaveAll(d, ids) == SaveIndex(SaveDescriptions(SaveIds(d, ids), ids), ids)

\* router.py:117-122 with the id lists compared as sets
CacheHitAnyOrder(smartapi_ids, d, avail) ==
    /\ _load_cached_descriptions(d)
    /\ Range(d.ids.ids) = Range(smartapi_ids)
    /\ _load_cached_index(d, avail)

\* router.py:117-122: `cached_ids == smartapi_ids` compares two lists
CacheHit(smartapi_ids, d, avail) ==
    /\ _load_cached_descriptions(d)
    /\ d.ids.ids = smartapi_ids
    /\ _load_cached_index(d, avail)

IndexResult(status, hit, ids, descriptions, index, d) ==
    [status |-> status, hit |-> hit, ids |-> ids, descriptions |-> descriptions,
     index |-> index, disk |-> d]

\* router.py:132-155, keys being the ids that have a description
Rebuild(keys, d, model_ok) ==
    IF keys = <<>> THEN IndexResult("ValueError", FALSE, <<>>, <<>>, <<>>, d)
    ELSE IF ~model_ok THEN IndexResult("EmbeddingError", FALSE, <<>>, <<>>, <<>>, d)
    ELSE IndexResult("ok", FALSE, keys, keys, keys, SaveAll(d, keys))

\* _ensure_semantic_index (router.py:110-155).  avail is
\* SEMANTIC_SEARCH_AVAILABLE, model_ok whether loading the model and
\* embedding the descriptions succeed.
_ensure_semantic_index(smartapi_ids, d, avail, model_ok) ==
    IF ~avail THEN IndexResult("RuntimeError", FALSE, <<>>, <<>>, <<>>, d)
    ELSE IF CacheHit(smartapi_ids, d, avail)
    THEN IndexResult("ok", TRUE, d.ids.ids, d.descriptions.ids, d.index.ids, d)
    ELSE Rebuild(_build_api_descriptions(smartapi_ids).keys, d, model_ok)

\* router.py:210-217: the ids of the rows the index search returned, a row
\* outside the id list being skipped
Usable(ids, hits) ==
    {ids[hits[i] + 1] : i \in {j \in DOMAIN hits : hits[j] >= 0 /\ hits[j] < Len(ids)}}

RECURSIVE SumLens(_, _)
SumLens(map, keys) ==
    IF keys = {} THEN 0
    ELSE LET k == CHOOSE x \in keys : TRUE
         IN  Len(map[k]) + SumLens(map, keys \ {k})

SearchResult(status, method, matches, categories, total_found, d) ==
    [status |-> status, method |-> method, matches |-> matches,
     categories |-> categories, total_found |-> total_found, disk |-> d]

\* router.py:227-232
CategoryResult(categories, d) ==
    SearchResult("ok", "category_routing", {}, categories,
                 SumLens(categories, DOMAIN categories), d)

\* router.py:199-225 with the failure of the index handed to the caller
SearchWithPropagating(e, query, smartapi_ids, env) ==
    IF e.status # "ok" THEN SearchResult(e.status, "none", {}, EmptyMap, 0, e.disk)
    ELSE IF env.query_ok /\ Usable(e.ids, env.hits) # {}
    THEN SearchResult("ok", "semantic_search", Usable(e.ids, env.hits), EmptyMap,
                      Cardinality(Usable(e.ids, env.hits)), e.disk)
    ELSE CategoryResult(_category_routing(query, smartapi_ids), e.disk)

\* router.py:199-232, e being what _ensure_semantic_index gave
SearchWith(e, query, smartapi_ids, env) ==
    IF e.status = "ok" /\ env.query_ok /\ Usable(e.ids, env.hits) # {}
    THEN SearchResult("ok", "semantic_search", Usable(e.ids, env.hits), EmptyMap,
                      Cardinality(Usable(e.ids, env.hits)), e.disk)
    ELSE CategoryResult(_category_routing(query, smartapi_ids), e.disk)

\* smart_search_smartapi (router.py:193-232).  env says whether the
\* embedding dependency is there (avail), whether the model loads and embeds
\* the descriptions (model_ok) and the query (query_ok), and which rows the
\* index search returns (hits).
smart_search_smartapi(query, smartapi_ids, d, env) ==
    IF ~env.avail THEN CategoryResult(_category_routing(query, smartapi_ids), d)
    ELSE SearchWith(_ensure_semantic_index(smartapi_ids, d, env.avail, env.model_ok),
                    query, smartapi_ids, env)

(***************************************************************************)
(* get_base_server_url, called by get_mcp_server (server.py:31-32): the    *)
(* choice of the base endpoint among the servers of an API document.  A    *)
(* candidate is a URL and a description, <<>> when it has none.            *)
(***************************************************************************)
MaxCandidates == 3

CiMarker == <<"c", "i", ".", "t", "r", "a", "n", "s", "l", "t", "r", ".", "i", "o">>
ProductionPhrase == <<"P", "r", "o", "d", "u", "c", "t", "i", "o", "n", " ", "s", "e", "r", "v", "e", "r", " ", "o", "n", " ", "h", "t", "t", "p", "s">>
ProductionWord == <<"p", "r", "o", "d", "u", "c", "t", "i", "o", "n">>

HasCiMarker(c) == Contains(CiMarker, c.url)

\* the exact phrase, or the word in any letter case
HasProductionMarker(c) ==
    c.description = ProductionPhrase \/ Contains(ProductionWord, Lower(c.description))

\* whether candidate c carries the marker looked for
Matches(c, marker) ==
    CASE marker = "ci" -> HasCiMarker(c)
      [] marker = "production" -> HasProductionMarker(c)
      [] OTHER -> HasCiMarker(c) \/ HasProductionMarker(c)

\* the position of the first candidate with the marker, 0 when there is none
FirstWhere(servers, marker) ==
    IF \E i \in DOMAIN servers : Matches(servers[i], marker)
    THEN CHOOSE i \in DOMAIN servers :
            Matches(servers[i], marker) /\ \A j \in 1..(i - 1) : ~Matches(servers[j], marker)
    ELSE 0

\* the candidate chosen among several: the first with the CI marker and,
\* failing that, the first with the production marker (scan = "ci_first"),
\* or the first with either marker (scan = "first_match")
Chosen(servers, scan) ==
    IF scan = "ci_first" /\ FirstWhere(servers, "ci") # 0
    THEN FirstWhere(servers, "ci")
    ELSE IF scan = "ci_first" THEN FirstWhere(servers, "production")
    ELSE FirstWhere(servers, "either")

Endpoint(status, url) == [status |-> status, url |-> url]

\* the single candidate is taken only if it carries a marker
get_base_server_url_AlwaysScanning(servers, scan) ==
    IF Chosen(servers, scan) # 0
    THEN Endpoint("ok", servers[Chosen(servers, scan)].url)
    ELSE Endpoint("NoSuitableEndpoint", <<>>)

get_base_server_url(servers, scan) ==
    IF Len(servers) = 1 THEN Endpoint("ok", servers[1].url)
    ELSE IF Len(servers) > 1 /\ Chosen(servers, scan) # 0
    THEN Endpoint("ok", servers[Chosen(servers, scan)].url)
    ELSE Endpoint("NoSuitableEndpoint", <<>>)

(***************************************************************************)
(* State: the last call (op, args), what it returned or raised (out), the  *)
(* router or progressive server object that lives across load_tools_batch  *)
(* calls (server) and the number of such calls made (nbatch), the search   *)
(* cache files (disk) and, for each process that shares these files, how   *)
(* far it is in writing a build to them (procs), how far the command-line  *)
(* entry point has come (cli), and the SmartAPIRegistry client (registry). *)
(* merge_mcp_servers and the two selection entry points keep no state      *)
(* between calls, so a behaviour makes one such call.                      *)
(***************************************************************************)
VARIABLES op, args, out, server, nbatch, disk, procs, cli, registry

vars == <<op, args, out, server, nbatch, disk, procs, cli, registry>>

\* the processes that share the cache directory
MaxProcs == 2
Procs == 1..MaxProcs

Idle == [pc |-> "idle", keys |-> <<>>]

\* main() before its first statement: nothing built, counted or run
NoMode == [kind |-> "none", transport |-> "", host |-> "", port |-> 0]
NotStarted ==
    [pc |-> "start", transport |-> "", runs |-> 0, mode |-> NoMode,
     warned |-> FALSE, exit_code |-> 0]

\* SmartAPIRegistry.__init__ (smartapi.py:18-25): self.session = None
NewRegistry ==
    [session |-> "None", depth |-> 0, entered |-> 0, requests |-> 0, calls |-> 0]

Init ==
    /\ op = "init"
    /\ args = [none |-> 0]
    /\ out = [none |-> 0]
    /\ server = NoServer
    /\ nbatch = 0
    /\ disk = NoCache
    /\ procs = [p \in Procs |-> Idle]
    /\ cli = NotStarted
    /\ registry = NewRegistry

(***************************************************************************)
(* Inputs of merge_mcp_servers.                                            *)
(***************************************************************************)
NameSet == {<<"a">>, <<"A">>, <<"a", "_">>, <<"a", " ">>, <<"b", "-", "1">>,
            <<"A", " ", "!">>, NoName}
ToolKeys == {<<"t">>, <<"_", "t">>}
PromptSets == {{}, {<<"p">>}}

Servers == [name : NameSet, tools : SUBSET ToolKeys, prompts : PromptSets]

ServerLists == SeqsUpTo(Servers, MaxServers)

MergeCall ==
    /\ op = "init"
    /\ \E list \in ServerLists :
        /\ op' = "merge_mcp_servers"
        /\ args' = [list_of_servers |-> list]
        /\ out' = merge_mcp_servers(list)
        /\ UNCHANGED <<server, nbatch, disk, procs, cli, registry>>

NextMerge == MergeCall

SpecMerge == Init /\ [][NextMerge]_vars

(***************************************************************************)
(* Inputs of the selection entry points.                                   *)
(***************************************************************************)
ApiSetNames == {NoApiSet, "", "biothings_core", "biothings_all", "unknown_set"}
QueryStrings == {"", "q"}
ExplicitIds == {0, 2, 5}
\* the exclusion lists, an id possibly named several times; the lists are
\* taken in ascending order
ExclLists ==
    {l \in SeqsUpTo({1, 5}, MaxExclLen) : \A i \in 1..(Len(l) - 1) : l[i] <= l[i + 1]}

\* one id given as many times as the medium threshold
RepeatedIds == [i \in 1..medium_api_threshold |-> 2]

SelectionArgs ==
    [api_set : ApiSetNames, smartapi_q : QueryStrings, smartapi_id : ExplicitIds,
     smartapi_ids : SmallLists \cup LargeLists \cup {RepeatedIds},
     smartapi_exclude_ids : ExclLists]

NoQuery == [raised |-> FALSE, ids |-> <<>>]

\* what the registry query can do when it is awaited
Outcomes(a) == IF QueryNeeded(a) THEN QueryOutcomes ELSE {NoQuery}

\* the orders list(set(...)) can give in get_merged_mcp_server
CallOrders(a, qres) ==
    IF ResolveIds(a, qres).status = "ok" THEN DedupOrders(ResolveIds(a, qres).ids) ELSE {<<>>}

GetMergedCall ==
    /\ op = "init"
    /\ \E a \in SelectionArgs :
      \E qres \in Outcomes(a) :
        \E order \in CallOrders(a, qres) :
            /\ op' = "get_merged_mcp_server"
            /\ args' = a @@ [qres |-> qres, order |-> order]
            /\ out' = get_merged_mcp_server(a, qres, order)
            /\ UNCHANGED <<server, nbatch, disk, procs, cli, registry>>

RoutingCaps == {MaxCap}

\* the nested call is made when the full build-and-merge is chosen
IsFull(plan) == plan.status = "ok" /\ plan.strategy = "full"

\* what the second registry query can do, and the orders of the nested call
Outcomes2(a, plan) == IF IsFull(plan) THEN Outcomes(NestedArgs(a, plan)) ELSE {NoQuery}
CallOrders2(a, plan, qres2) ==
    IF IsFull(plan) THEN CallOrders(NestedArgs(a, plan), qres2) ELSE {<<>>}

Routed(a, smart_routing, max_context_tools, qres, qres2, order, r) ==
    /\ op' = "get_smart_mcp_server_with_routing"
    /\ args' = a @@ [qres |-> qres, qres2 |-> qres2, order |-> order,
                     smart_routing |-> smart_routing,
                     max_context_tools |-> max_context_tools]
    /\ out' = r
    /\ server' = r.server
    /\ UNCHANGED <<nbatch, disk, procs, cli, registry>>

RoutingCall ==
    /\ op = "init"
    /\ \E a \in SelectionArgs, smart_routing \in BOOLEAN, max_context_tools \in RoutingCaps :
      \E qres \in Outcomes(a) :
        \E qres2 \in Outcomes2(a, RoutingPlan(a, smart_routing, qres)) :
          \E order \in CallOrders2(a, RoutingPlan(a, smart_routing, qres), qres2) :
            Routed(a, smart_routing, max_context_tools, qres, qres2, order,
                   get_smart_mcp_server_with_routing(a, smart_routing, max_context_tools,
                                                     qres, qres2, order))

NextSelect == GetMergedCall \/ RoutingCall

SpecSelect == Init /\ [][NextSelect]_vars

(***************************************************************************)
(* A router or progressive server and its load_tools_batch calls.          *)
(***************************************************************************)
LongRequest == <<1, 5, 4, 6, 7>>
BatchRequests ==
    {<<>>, <<1>>, <<2>>, <<3>>, <<4>>, <<1, 1>>, <<1, 2>>, <<2, 1>>, <<1, 4>>, <<3, 1>>,
     <<4, 4>>, LongRequest, <<LoaderLikeId>>}
Caps == (0 - 1)..MaxCap

CreateRouter ==
    /\ server.kind = "none"
    /\ \E ids \in BatchRequests, max_tools \in Caps :
        /\ op' = "create_smart_router_server"
        /\ args' = [smartapi_ids |-> ids, max_tools |-> max_tools]
        /\ server' = create_smart_router_server(ids, max_tools)
        /\ out' = [status |-> "ok"]
        /\ UNCHANGED <<nbatch, disk, procs, cli, registry>>

CreateProgressive ==
    /\ server.kind = "none"
    /\ \E ids \in BatchRequests, max_tools \in Caps :
        /\ op' = "create_progressive_server"
        /\ args' = [smartapi_ids |-> ids, max_tools |-> max_tools]
        /\ server' = create_progressive_server(ids, max_tools)
        /\ out' = [status |-> "ok"]
        /\ UNCHANGED <<nbatch, disk, procs, cli, registry>>

LoadToolsBatch ==
    /\ server.kind # "none"
    /\ nbatch < MaxBatchCalls
    /\ \E api_ids \in BatchRequests :
        LET r == load_tools_batch(server, api_ids)
        IN  /\ op' = "load_tools_batch"
            /\ args' = [api_ids |-> api_ids, before |-> server.tools]
            /\ out' = r
            /\ server' = [server EXCEPT !.tools = r.tools]
            /\ nbatch' = nbatch + 1
            /\ UNCHANGED <<disk, procs, cli, registry>>

NextBatch == CreateRouter \/ CreateProgressive \/ LoadToolsBatch

SpecBatch == Init /\ [][NextBatch]_vars

(***************************************************************************)
(* The search layer called again and again by one process: the cache       *)
(* files stay between the calls, and can be removed or damaged from        *)
(* outside between two calls.                                              *)
(***************************************************************************)
SearchRequests == {<<1, 3>>, <<3, 1>>, <<4>>, <<1, 4>>}
RoutingRequests == SearchRequests \cup {<<>>, <<2, 5>>, <<6, 1, 1>>}

Queries ==
    {<<"G", "e", "n", "e", "s">>, <<"g", "e", "n", "e", "r", "a", "l">>,
     <<"a", " ", "t", "r", "i", "a", "l">>, <<"P", "a", "p", "e", "r">>, <<"x">>, <<>>}
SearchQueries == {<<"G", "e", "n", "e", "s">>, <<"x">>}

\* what the embedding side can do in one call
SearchEnvs ==
    {[avail |-> FALSE, model_ok |-> TRUE, query_ok |-> TRUE, hits |-> <<0>>],
     [avail |-> TRUE, model_ok |-> FALSE, query_ok |-> TRUE, hits |-> <<0>>],
     [avail |-> TRUE, model_ok |-> TRUE, query_ok |-> FALSE, hits |-> <<0>>],
     [avail |-> TRUE, model_ok |-> TRUE, query_ok |-> TRUE, hits |-> <<0 - 1>>],
     [avail |-> TRUE, model_ok |-> TRUE, query_ok |-> TRUE, hits |-> <<0>>],
     [avail |-> TRUE, model_ok |-> TRUE, query_ok |-> TRUE, hits |-> <<1, 0>>]}
IndexEnvs == {e \in SearchEnvs : e.query_ok /\ e.hits = <<0>>}

\* index.search returns row numbers of the index, or -1
RowsOf(e, hits) == e.status = "ok" => \A i \in DOMAIN hits : hits[i] < Len(e.index)

\* _category_routing reads no file and keeps no state: a behaviour makes
\* one such call
CategoryRoutingCall ==
    /\ op = "init"
    /\ \E query \in Queries, smartapi_ids \in RoutingRequests :
        /\ op' = "_category_routing"
        /\ args' = [query |-> query, smartapi_ids |-> smartapi_ids]
        /\ out' = [status |-> "ok", categories |-> _category_routing(query, smartapi_ids)]
        /\ UNCHANGED <<server, nbatch, disk, procs, cli, registry>>

EnsureIndexCall ==
    \E smartapi_ids \in SearchRequests, env \in IndexEnvs :
        /\ op' = "_ensure_semantic_index"
        /\ args' = [smartapi_ids |-> smartapi_ids, env |-> env, before |-> disk]
        /\ out' = _ensure_semantic_index(smartapi_ids, disk, env.avail, env.model_ok)
        /\ disk' = out'.disk
        /\ UNCHANGED <<server, nbatch, procs, cli, registry>>

SmartSearchCall ==
    \E query \in SearchQueries, smartapi_ids \in SearchRequests, env \in SearchEnvs :
        /\ RowsOf(_ensure_semantic_index(smartapi_ids, disk, env.avail, env.model_ok), env.hits)
        /\ op' = "smart_search_smartapi"
        /\ args' = [query |-> query, smartapi_ids |-> smartapi_ids, env |-> env,
                    before |-> disk]
        /\ out' = smart_search_smartapi(query, smartapi_ids, disk, env)
        /\ disk' = out'.disk
        /\ UNCHANGED <<server, nbatch, procs, cli, registry>>

\* a cache file is removed, or replaced by something that does not parse
DamageCache ==
    \E f \in {"ids", "descriptions", "index"}, file \in {MissingFile, UnusableFile} :
        /\ disk[f].state = "ok"
        /\ op' = "damage"
        /\ args' = [file |-> f]
        /\ out' = [status |-> "ok"]
        /\ disk' = [disk EXCEPT ![f] = file]
        /\ UNCHANGED <<server, nbatch, procs, cli, registry>>

NextSearch == CategoryRoutingCall \/ EnsureIndexCall \/ SmartSearchCall \/ DamageCache

SpecSearch == Init /\ [][NextSearch]_vars

(***************************************************************************)
(* _ensure_semantic_index run by several processes on the same cache       *)
(* directory.  The three writes of a build (router.py:60, 61, 81) are      *)
(* three steps: other processes run between them, and the writing process  *)
(* can be killed between them.                                             *)
(***************************************************************************)
Step(p, pc, keys) == procs' = [procs EXCEPT ![p] = [pc |-> pc, keys |-> keys]]

\* router.py:113-148: the cache is read; on a hit, or when the build fails,
\* the call is over, else the build is ready to be written
Begin(p) ==
    /\ procs[p].pc = "idle"
    /\ \E smartapi_ids \in SearchRequests, env \in {e \in IndexEnvs : e.avail} :
        /\ args' = [pid |-> p, smartapi_ids |-> smartapi_ids, env |-> env, before |-> disk]
        /\ IF \/ CacheHit(smartapi_ids, disk, env.avail)
              \/ _ensure_semantic_index(smartapi_ids, disk, env.avail, env.model_ok).status # "ok"
           THEN /\ op' = "_ensure_semantic_index"
                /\ out' = _ensure_semantic_index(smartapi_ids, disk, env.avail, env.model_ok)
                /\ UNCHANGED procs
           ELSE /\ op' = "build"
                /\ out' = [status |-> "running"]
                /\ Step(p, "save_ids", _build_api_descriptions(smartapi_ids).keys)
        /\ UNCHANGED <<server, nbatch, disk, cli, registry>>

\* router.py:60
WriteIds(p) ==
    /\ procs[p].pc = "save_ids"
    /\ disk' = SaveIds(disk, procs[p].keys)
    /\ Step(p, "save_descriptions", procs[p].keys)
    /\ op' = "write"
    /\ args' = [pid |-> p, file |-> "ids"]
    /\ out' = [status |-> "running"]
    /\ UNCHANGED <<server, nbatch, cli, registry>>

\* router.py:61
WriteDescriptions(p) ==
    /\ procs[p].pc = "save_descriptions"
    /\ disk' = SaveDescriptions(disk, procs[p].keys)
    /\ Step(p, "save_index", procs[p].keys)
    /\ op' = "write"
    /\ args' = [pid |-> p, file |-> "descriptions"]
    /\ out' = [status |-> "running"]
    /\ UNCHANGED <<server, nbatch, cli, registry>>

\* router.py:81 and the return at 151-155
WriteIndex(p) ==
    /\ procs[p].pc = "save_index"
    /\ disk' = SaveIndex(disk, procs[p].keys)
    /\ Step(p, "idle", <<>>)
    /\ op' = "rebuilt"
    /\ args' = [pid |-> p, file |-> "index"]
    /\ out' = IndexResult("ok", FALSE, procs[p].keys, procs[p].keys, procs[p].keys, disk')
    /\ UNCHANGED <<server, nbatch, cli, registry>>

\* the process is killed between two writes
Crash(p) ==
    /\ procs[p].pc \in {"save_descriptions", "save_index"}
    /\ Step(p, "idle", <<>>)
    /\ op' = "crash"
    /\ args' = [pid |-> p]
    /\ out' = [status |-> "killed"]
    /\ UNCHANGED <<server, nbatch, disk, cli, registry>>

NextCache ==
    \E p \in Procs :
        Begin(p) \/ WriteIds(p) \/ WriteDescriptions(p) \/ WriteIndex(p) \/ Crash(p)

SpecCache == Init /\ [][NextCache]_vars

(***************************************************************************)
(* Inputs of get_base_server_url.                                          *)
(***************************************************************************)
Candidates ==
    {[url |-> <<"d", "e", "v", ".", "x">>, description |-> <<>>],
     [url |-> <<"d", "e", "v", ".", "x">>, description |-> <<"D", "e", "v", "e", "l", "o", "p", "m", "e", "n", "t", " ", "s", "e", "r", "v", "e", "r">>],
     [url |-> <<"a", "p", "i", ".", "x">>, description |-> ProductionPhrase],
     [url |-> <<"p", "r", "o", "d", ".", "x">>, description |-> <<"P", "R", "O", "D", "U", "C", "T", "I", "O", "N", " ", "e", "n", "v">>],
     [url |-> <<"a", ".", "c", "i", ".", "t", "r", "a", "n", "s", "l", "t", "r", ".", "i", "o", "/", "t">>, description |-> <<"C", "I", " ", "s", "e", "r", "v", "e", "r">>],
     [url |-> <<"s", "t", "a", "g", "e", ".", "x">>, description |-> <<"S", "t", "a", "g", "i", "n", "g", " ", "s", "e", "r", "v", "e", "r">>]}

CandidateLists == SeqsUpTo(Candidates, MaxCandidates)

BaseUrlCall ==
    /\ op = "init"
    /\ \E servers \in CandidateLists, scan \in {"ci_first", "first_match"} :
        /\ op' = "get_base_server_url"
        /\ args' = [servers |-> servers, scan |-> scan]
        /\ out' = get_base_server_url(servers, scan)
        /\ UNCHANGED <<server, nbatch, disk, procs, cli, registry>>

NextEndpoint == BaseUrlCall

SpecEndpoint == Init /\ [][NextEndpoint]_vars

(***************************************************************************)
(* The command-line entry point main() (cli.py:22-168), from the           *)
(* construction of the server to the call of its run method.  load_config  *)
(* gives the configuration; get_all_counts and run belong to the server    *)
(* library.                                                                *)
(***************************************************************************)
StdioMode == [kind |-> "stdio", transport |-> "", host |-> "", port |-> 0]

\* cli.py:159-167 with the listener for "http" only
RunModeHttpOnly(config) ==
    IF config.transport = "http"
    THEN [kind |-> "network", transport |-> config.transport, host |-> config.host,
          port |-> config.port]
    ELSE StdioMode

\* cli.py:159-167: run(transport=, host=, port=) or run()
RunMode(config) ==
    IF config.transport \in {"http", "sse"}
    THEN [kind |-> "network", transport |-> config.transport, host |-> config.host,
          port |-> config.port]
    ELSE StdioMode

\* what main() has in merged_server after cli.py:104-128
Constructed(status, tool_count) == [status |-> status, tool_count |-> tool_count]

ConstructedByRouting(r) ==
    IF r.strategy \in {"router", "progressive"}
    THEN Constructed("ok", Cardinality(DOMAIN r.server.tools))
    ELSE Constructed(r.merged.status, Cardinality(DOMAIN r.merged.tools))

ConstructedByMerge(m) == Constructed(m.status, Cardinality(DOMAIN m.tools))

Selection(id, ids, excl) ==
    [api_set |-> NoApiSet, smartapi_q |-> "", smartapi_id |-> id, smartapi_ids |-> ids,
     smartapi_exclude_ids |-> excl]

CliSelections ==
    {Selection(1, <<>>, <<>>), Selection(3, <<>>, <<>>), Selection(4, <<>>, <<>>),
     Selection(0, <<>>, <<>>), Selection(0, <<1>>, <<1>>),
     Selection(0, IdRange(FirstLargeId, medium_api_threshold), <<>>)}

Transports == {"None", "stdio", "http", "sse", "websocket"}

CliConfigs ==
    [transport : Transports, host : {"localhost"}, port : {8001},
     smart_routing : BOOLEAN, max_context_tools : {MaxCap}, selection : CliSelections]

\* cli.py:104-128: the server is constructed; a failure ends main()
CliConstructed(config, c) ==
    /\ op' = "construct"
    /\ args' = config
    /\ out' = c
    /\ cli' = [cli EXCEPT !.pc = IF c.status = "ok" THEN "constructed" ELSE "raised",
                          !.transport = config.transport]
    /\ UNCHANGED <<server, nbatch, disk, procs, registry>>

CliConstruct ==
    /\ cli.pc = "start"
    /\ \E config \in CliConfigs :
         IF config.smart_routing
         THEN \E order \in CallOrders2(config.selection,
                                       RoutingPlan(config.selection, TRUE, NoQuery), NoQuery) :
                CliConstructed(config, ConstructedByRouting(
                    get_smart_mcp_server_with_routing(config.selection, TRUE,
                        config.max_context_tools, NoQuery, NoQuery, order)))
         ELSE \E order \in CallOrders(config.selection, NoQuery) :
                CliConstructed(config, ConstructedByMerge(
                    get_merged_mcp_server(config.selection, NoQuery, order)))

\* cli.py:133-157: the components are counted; no tool and no resource gives
\* a warning, a failure of the count ends the process with code 1.  The
\* server has the tools main() constructed and no resource.
CliCount ==
    /\ cli.pc = "constructed"
    /\ \E counted \in BOOLEAN :
        /\ op' = "get_all_counts"
        /\ cli' = IF counted
                  THEN [cli EXCEPT !.pc = "counted", !.warned = (out.tool_count = 0)]
                  ELSE [cli EXCEPT !.pc = "exited", !.exit_code = 1]
        /\ UNCHANGED <<args, out, server, nbatch, disk, procs, registry>>

\* cli.py:159-167: the server is run
CliRun ==
    /\ cli.pc = "counted"
    /\ op' = "run"
    /\ cli' = [cli EXCEPT !.pc = "running", !.runs = @ + 1, !.mode = RunMode(args)]
    /\ UNCHANGED <<args, out, server, nbatch, disk, procs, registry>>

\* run returns when the server stops, and main() returns
CliReturn ==
    /\ cli.pc = "running"
    /\ op' = "return"
    /\ cli' = [cli EXCEPT !.pc = "returned"]
    /\ UNCHANGED <<args, out, server, nbatch, disk, procs, registry>>

NextCli == CliConstruct \/ CliCount \/ CliRun \/ CliReturn

SpecCli == Init /\ [][NextCli]_vars

(***************************************************************************)
(* The build loop and the merge of one request, step by step: the list     *)
(* comprehension of get_merged_mcp_server (server.py:118-124) and the loop *)
(* of load_tools_batch (router.py:325-340) await one build after the       *)
(* other and then call merge_mcp_servers.  out is the progress of the      *)
(* request: the next position i of the id list, the servers built so far   *)
(* with the ids they were built from, the ids whose build was awaited, and *)
(* the number of merge passes started.                                     *)
(***************************************************************************)
NoResult == [status |-> "none", report |-> "", tools |-> EmptyMap]

Progress(ids, i, servers, owners, attempted, phase, merges, result) ==
    [ids |-> ids, i |-> i, servers |-> servers, owners |-> owners,
     attempted |-> attempted, phase |-> phase, merges |-> merges, result |-> result]

\* the merge is called as soon as one build has finished
BuildsDoneAfterFirst(p) == p.i > 1

\* the merge is called when the loop over the ids has ended
BuildsDone(p) == p.i > Len(p.ids)

\* the lists list(set(smartapi_ids)) can be (server.py:113-114)
DistinctLists == {l \in SmallLists : l # <<>> /\ Len(l) = Cardinality(Range(l))}

\* server.py:113-118: get_merged_mcp_server has its id list and starts to build
StartMerged ==
    /\ op = "init"
    /\ \E ids \in DistinctLists, excl \in ExclLists :
        /\ op' = "start_merged"
        /\ args' = [kind |-> "merged", ids |-> ids, excl |-> excl, max_tools |-> 0]
        /\ out' = Progress(ids, 1, <<>>, <<>>, <<>>, "building", 0, NoResult)
        /\ UNCHANGED <<server, nbatch, disk, procs, cli, registry>>

\* router.py:321-324: load_tools_batch of a new router has its batch
StartBatch ==
    /\ op = "init"
    /\ \E api_ids \in BatchRequests, max_tools \in 1..MaxCap :
        /\ op' = "start_batch"
        /\ args' = [kind |-> "batch", ids |-> api_ids, excl |-> <<>>, max_tools |-> max_tools]
        /\ server' = create_smart_router_server(api_ids, max_tools)
        /\ out' = IF BatchIds(server', api_ids) = <<>>
                  THEN Progress(<<>>, 1, <<>>, <<>>, <<>>, "done", 0,
                                [status |-> "ok", report |-> "No API IDs provided to load.",
                                 tools |-> server'.tools])
                  ELSE Progress(BatchIds(server', api_ids), 1, <<>>, <<>>, <<>>, "building", 0,
                                NoResult)
        /\ UNCHANGED <<nbatch, disk, procs, cli, registry>>

\* the build of the id at position i is over: server.py:119-122, where a
\* failure leaves the call, and router.py:326-331, where it is logged
Built(p, r) ==
    IF r.status = "ok"
    THEN [p EXCEPT !.i = @ + 1, !.servers = Append(@, r.server),
                   !.owners = Append(@, p.ids[p.i]), !.attempted = Append(@, p.ids[p.i])]
    ELSE IF args.kind = "merged"
    THEN [p EXCEPT !.attempted = Append(@, p.ids[p.i]), !.phase = "raised",
                   !.result = [status |-> r.status, report |-> "", tools |-> EmptyMap]]
    ELSE [p EXCEPT !.i = @ + 1, !.attempted = Append(@, p.ids[p.i])]

BuildStep ==
    /\ op \in {"start_merged", "start_batch", "build"}
    /\ out.phase = "building"
    /\ out.i <= Len(out.ids)
    /\ op' = "build"
    /\ out' = IF InSeq(out.ids[out.i], args.excl)
              THEN [out EXCEPT !.i = @ + 1]
              ELSE Built(out, get_mcp_server(out.ids[out.i]))
    /\ UNCHANGED <<args, server, nbatch, disk, procs, cli, registry>>

\* server.py:124-126 and router.py:333-340, m being the merge of the servers built
MergedInto(p, m) ==
    IF m.status # "ok"
    THEN [p EXCEPT !.phase = "raised", !.merges = @ + 1,
                   !.result = [status |-> m.status, report |-> "", tools |-> EmptyMap]]
    ELSE [p EXCEPT !.phase = "done", !.merges = @ + 1,
                   !.result = [status |-> "ok", report |-> "Loaded",
                               tools |-> OwnedBy(m.tools, p.owners)]]

MergeStep ==
    /\ op \in {"start_merged", "start_batch", "build"}
    /\ out.phase = "building"
    /\ BuildsDone(out)
    /\ op' = "merge"
    /\ out' = IF args.kind = "batch" /\ out.servers = <<>>
              THEN [out EXCEPT !.phase = "done",
                               !.result = [status |-> "ok", report |-> "No tools loaded.",
                                           tools |-> EmptyMap]]
              ELSE MergedInto(out, merge_mcp_servers(out.servers))
    /\ server' = IF args.kind = "batch" /\ out'.phase = "done"
                 THEN [server EXCEPT !.tools = AddLoaded(@, out'.result.tools)]
                 ELSE server
    /\ UNCHANGED <<args, nbatch, disk, procs, cli, registry>>

NextBuild == StartMerged \/ StartBatch \/ BuildStep \/ MergeStep

SpecBuild == Init /\ [][NextBuild]_vars

(***************************************************************************)
(* SmartAPIRegistry (smartapi.py:15-87).  session is None, an open         *)
(* aiohttp.ClientSession or a closed one; depth counts the `async with`    *)
(* blocks of the registry that have been entered and not yet left;         *)
(* requests counts the HTTP requests sent.  A closed ClientSession is an   *)
(* object, so it is true in a truth test, and its get() raises without     *)
(* sending anything.                                                       *)
(***************************************************************************)
MaxEnters == 2
MaxCalls == 2

\* smartapi.py:46 and 74: `if not self.session`
NoSession(r) == r.session = "None"

Answer(status, result) == [status |-> status, result |-> result]

\* smartapi.py:37-63; http is what the registry answers to a request sent
search_apis(r, http) ==
    IF NoSession(r) THEN Answer("RuntimeError", "none")
    ELSE IF r.session = "closed" THEN Answer("ok", "[]")
    ELSE IF http = "ok" THEN Answer("ok", "hits")
    ELSE Answer("ok", "[]")

\* smartapi.py:65-87
get_api_spec(r, http) ==
    IF NoSession(r) THEN Answer("RuntimeError", "none")
    ELSE IF r.session = "closed" THEN Answer("ok", "None")
    ELSE IF http = "ok" THEN Answer("ok", "spec")
    ELSE Answer("ok", "None")

\* a request goes out only through an open session
Sent(r) == IF r.session = "open" THEN 1 ELSE 0

HttpAnswers == {"ok", "404", "error"}

\* smartapi.py:27-30
Enter ==
    /\ registry.entered < MaxEnters
    /\ op' = "__aenter__"
    /\ args' = [before |-> registry]
    /\ out' = Answer("ok", "self")
    /\ registry' = [registry EXCEPT !.session = "open", !.depth = @ + 1, !.entered = @ + 1]
    /\ UNCHANGED <<server, nbatch, disk, procs, cli>>

\* smartapi.py:32-35; the block is left normally or by an exception
Exit ==
    /\ registry.depth > 0
    /\ \E exc \in BOOLEAN :
        /\ op' = "__aexit__"
        /\ args' = [before |-> registry, exc |-> exc]
        /\ out' = Answer("ok", "none")
        /\ registry' = [registry EXCEPT !.session = IF @ = "None" THEN @ ELSE "closed",
                                        !.depth = @ - 1]
        /\ UNCHANGED <<server, nbatch, disk, procs, cli>>

SearchApis ==
    /\ registry.calls < MaxCalls
    /\ \E http \in HttpAnswers :
        /\ op' = "search_apis"
        /\ args' = [before |-> registry, http |-> http]
        /\ out' = search_apis(registry, http)
        /\ registry' = [registry EXCEPT !.calls = @ + 1, !.requests = @ + Sent(registry)]
        /\ UNCHANGED <<server, nbatch, disk, procs, cli>>

GetApiSpec ==
    /\ registry.calls < MaxCalls
    /\ \E http \in HttpAnswers :
        /\ op' = "get_api_spec"
        /\ args' = [before |-> registry, http |-> http]
        /\ out' = get_api_spec(registry, http)
        /\ registry' = [registry EXCEPT !.calls = @ + 1, !.requests = @ + Sent(registry)]
        /\ UNCHANGED <<server, nbatch, disk, procs, cli>>

NextRegistry == Enter \/ Exit \/ SearchApis \/ GetApiSpec

SpecRegistry == Init /\ [][NextRegistry]_vars

(***************************************************************************)
(* Properties.                                                             *)
(***************************************************************************)
\* the result of the build-and-merge of the last selection call
LastMerged == IF op = "get_smart_mcp_server_with_routing" THEN out.merged ELSE out

IsSelectionCall == op \in {"get_merged_mcp_server", "get_smart_mcp_server_with_routing"}

\* whether the predefined set named by the call carries the given field
SetHas(a, field) ==
    /\ a.api_set \in DOMAIN PredefinedSets
    /\ field \in DOMAIN PredefinedSets[a.api_set]

\* the exclusion list the code applies: the one of the predefined set when
\* it carries one, else the explicit one
EffectiveExcl(a) ==
    IF SetHas(a, "smartapi_exclude_ids")
    THEN PredefinedSets[a.api_set].smartapi_exclude_ids
    ELSE a.smartapi_exclude_ids

\* C1: merging two instances with different display names, each with at
\* least one tool, gives an aggregate with as many tool names as the two
\* instances have tools in total.
C1_DistinctNamesGiveSumOfTools ==
    (/\ op = "merge_mcp_servers"
     /\ Len(args.list_of_servers) = 2
     /\ args.list_of_servers[1].name # args.list_of_servers[2].name
     /\ args.list_of_servers[1].tools # {}
     /\ args.list_of_servers[2].tools # {})
    => /\ out.status = "ok"
       /\ Cardinality(DOMAIN out.tools) =
              Cardinality(args.list_of_servers[1].tools)
              + Cardinality(args.list_of_servers[2].tools)

\* C2: a merge whose input list holds an instance with zero tools, at any
\* position, fails with the no-accessible-tools error and returns no
\* aggregate.
C2_ToollessInstanceFailsMerge ==
    (/\ op = "merge_mcp_servers"
     /\ \E i \in DOMAIN args.list_of_servers : args.list_of_servers[i].tools = {})
    => /\ out.status = "AttributeError"
       /\ DOMAIN out.tools = {}
       /\ DOMAIN out.prompts = {}

C2_Witness ==
    /\ op = "merge_mcp_servers"
    /\ Len(args.list_of_servers) = 2
    /\ args.list_of_servers[1].tools # {}
    /\ args.list_of_servers[2].tools = {}
    /\ out.status = "AttributeError"

\* C3: merging a single instance with sanitized name p and tool keys K
\* gives exactly the tool names p + "_" + k, one per key, all prefixed.
C3_SingleInstancePrefixed ==
    (/\ op = "merge_mcp_servers"
     /\ Len(args.list_of_servers) = 1
     /\ args.list_of_servers[1].tools # {})
    => LET p == ApiName(args.list_of_servers[1])
           K == args.list_of_servers[1].tools
       IN  /\ out.status = "ok"
           /\ DOMAIN out.tools = {p \o <<"_">> \o k : k \in K}
           /\ Cardinality(DOMAIN out.tools) = Cardinality(K)
           /\ \A n \in DOMAIN out.tools :
                 /\ Len(n) > Len(p) + 1
                 /\ SubSeq(n, 1, Len(p) + 1) = p \o <<"_">>

C3_Witness ==
    /\ op = "merge_mcp_servers"
    /\ Len(args.list_of_servers) = 1
    /\ args.list_of_servers[1].name = <<"a", " ">>
    /\ args.list_of_servers[1].tools = ToolKeys
    /\ out.status = "ok"
    /\ DOMAIN out.tools = {<<"a", "_", "_", "t">>, <<"a", "_", "_", "_", "t">>}

\* C4: in get_merged_mcp_server, with a predefined set supplying an id
\* list, a query string and an explicit id C all given, and the query
\* returning, the ids built are exactly {C} minus the exclusion list.
C4_ExplicitIdWins ==
    (/\ op = "get_merged_mcp_server"
     /\ SetHas(args, "smartapi_ids")
     /\ args.smartapi_q # ""
     /\ args.smartapi_id # 0
     /\ ~args.qres.raised)
    => /\ Range(out.built) = {args.smartapi_id} \ Range(EffectiveExcl(args))
       /\ Range(out.ids) = {args.smartapi_id}

C4_Witness ==
    /\ op = "get_merged_mcp_server"
    /\ args.api_set = "biothings_core"
    /\ args.smartapi_q = "q"
    /\ args.smartapi_id = 5
    /\ args.qres.ids = <<2, 1, 2>>
    /\ args.smartapi_exclude_ids = <<1>>
    /\ out.status = "ok"
    /\ out.built = <<5>>

\* C5: when an explicit exclusion list and a predefined set with its own
\* default exclusion list are both given, the explicit list is the one
\* applied: the ids built are the selected ids minus the explicit list.
C5_ExplicitExclusionWins ==
    (/\ IsSelectionCall
     /\ SetHas(args, "smartapi_exclude_ids")
     /\ args.smartapi_exclude_ids # <<>>
     /\ LastMerged.status = "ok"
     /\ LastMerged.ids # <<>>)
    => Range(LastMerged.built) = Range(LastMerged.ids) \ Range(args.smartapi_exclude_ids)

\* C6: an id of the effective exclusion list is never built and owns no
\* tool of the aggregate, however often it occurs among the selected ids,
\* and excluding every id twice gives the result of excluding it once.
C6_ExcludedNeverBuilt ==
    /\ IsSelectionCall =>
          \A id \in Range(EffectiveExcl(args)) :
              /\ ~InSeq(id, LastMerged.built)
              /\ \A n \in DOMAIN LastMerged.tools : LastMerged.tools[n] # id
    /\ op = "get_smart_mcp_server_with_routing" =>
          \A id \in Range(EffectiveExcl(args)) :
              /\ ~InSeq(id, out.available)
              /\ ~InSeq(id, out.server.smartapi_ids)
    /\ op = "get_merged_mcp_server" =>
          LET twice == [args EXCEPT !.smartapi_exclude_ids = @ \o @]
              r == get_merged_mcp_server(twice, args.qres, args.order)
          IN  /\ r.status = out.status
              /\ r.built = out.built
              /\ r.tools = out.tools

C6_Witness ==
    /\ op = "get_merged_mcp_server"
    /\ args.api_set = ""
    /\ args.smartapi_id = 0
    /\ args.smartapi_q = "q"
    /\ args.smartapi_ids = <<2, 1>>
    /\ args.qres.ids = <<2, 1, 2>>
    /\ args.smartapi_exclude_ids = <<1, 1>>
    /\ out.status = "ok"
    /\ out.built = <<2>>
    /\ DOMAIN out.tools = {<<"m", "y", "_", "a", "_", "q">>}

\* C7: get_merged_mcp_server fails with the no-APIs-selected error exactly
\* when the id collection is empty after precedence and before exclusion,
\* and then builds nothing; when the exclusion list removes every id it
\* returns an aggregate with zero tools.
C7_NoApisSelectedIffEmpty ==
    op = "get_merged_mcp_server" =>
        LET known == NoSetNamed(args) \/ args.api_set \in DOMAIN PredefinedSets
            q == IF SetHas(args, "smartapi_q")
                 THEN PredefinedSets[args.api_set].smartapi_q ELSE args.smartapi_q
            listed == IF SetHas(args, "smartapi_ids")
                      THEN PredefinedSets[args.api_set].smartapi_ids ELSE args.smartapi_ids
            resolved == known /\ ~(q # "" /\ args.qres.raised)
            ids == IF args.smartapi_id # 0 THEN <<args.smartapi_id>>
                   ELSE IF q # "" THEN args.qres.ids ELSE listed
        IN  /\ out.status = "NoApisSelected" <=> (resolved /\ ids = <<>>)
            /\ out.status = "NoApisSelected" => out.built = <<>>
            /\ (resolved /\ ids # <<>> /\ Range(ids) \subseteq Range(EffectiveExcl(args)))
                  => /\ out.status = "ok"
                     /\ out.built = <<>>
                     /\ DOMAIN out.tools = {}

C7_Witness ==
    /\ op = "get_merged_mcp_server"
    /\ args.api_set = ""
    /\ args.smartapi_q = ""
    /\ args.smartapi_id = 0
    /\ args.smartapi_ids = <<1, 1>>
    /\ args.smartapi_exclude_ids = <<1>>
    /\ out.status = "ok"
    /\ DOMAIN out.tools = {}

\* C8: get_smart_mcp_server_with_routing picks one strategy from the
\* number n of ids left after exclusion: router iff routing is enabled and
\* n >= 50, else progressive iff n >= 10, else the full build-and-merge.
C8_StrategyByCount ==
    op = "get_smart_mcp_server_with_routing" =>
        LET n == Len(out.available)
            routed == args.smart_routing /\ n >= 50
        IN  /\ out.strategy \in {"none", "router", "progressive", "full"}
            /\ out.strategy = "none" =>
                  /\ out.merged.status \in {"UnknownApiSet", "QueryError", "NoApisSelected"}
                  /\ out.merged.built = <<>>
                  /\ out.server.kind = "none"
            /\ out.strategy # "none" =>
                  /\ out.strategy = "router" <=> routed
                  /\ out.strategy = "progressive" <=> (~routed /\ n >= 10)
                  /\ out.strategy = "full" <=> (~routed /\ n < 10)
                  /\ out.strategy = "router" =>
                        out.server.kind = "router" /\ out.merged.built = <<>>
                  /\ out.strategy = "progressive" =>
                        out.server.kind = "progressive" /\ out.merged.built = <<>>
                  /\ out.strategy = "full" => out.server.kind = "none"

C8_Witness ==
    /\ op = "get_smart_mcp_server_with_routing"
    /\ args.smart_routing
    /\ Len(args.smartapi_ids) = 50
    /\ args.smartapi_exclude_ids = <<5>>
    /\ Len(out.available) = 49
    /\ out.strategy = "progressive"
    /\ server.kind = "progressive"

\* C9: one invocation of load_tools_batch on a server created with
\* capacity c builds at most c servers (none when c is not positive), for
\* every integer capacity.
C9_AtMostCapacityBuilt ==
    op = "load_tools_batch" =>
        Len(out.built) <= (IF server.max_tools > 0 THEN server.max_tools ELSE 0)

\* C10: load_tools_batch is never failed by one id: the invocation returns
\* its report and the tools of every id of the batch that builds with
\* tools are on the server afterwards.
C10_OneIdNeverFailsBatch ==
    op = "load_tools_batch" =>
        /\ out.status = "ok"
        /\ \A i \in DOMAIN out.batch_ids :
              LET r == get_mcp_server(out.batch_ids[i])
              IN  (r.status = "ok" /\ r.server.tools # {}) =>
                      \A k \in r.server.tools :
                          ApiName(r.server) \o <<"_">> \o k \in DOMAIN server.tools

\* the ids of the batch all fail to build
AllFail(batch_ids) ==
    /\ batch_ids # <<>>
    /\ \A i \in DOMAIN batch_ids : get_mcp_server(batch_ids[i]).status # "ok"

\* C11: when every id of a batch fails to build, load_tools_batch returns
\* the "No tools loaded." report without raising, hands no server to the
\* merge, and the server's tools are what they were before the invocation.
C11_AllFailingBatchLoadsNothing ==
    (op = "load_tools_batch" /\ AllFail(out.batch_ids)) =>
        /\ out.status = "ok"
        /\ out.report = "No tools loaded."
        /\ out.owners = <<>>
        /\ out.n_tools = 0
        /\ server.tools = args.before

\* a batch of two failing ids, on a server that already holds loaded tools
C11_Witness ==
    /\ op = "load_tools_batch"
    /\ AllFail(out.batch_ids)
    /\ Len(out.batch_ids) = 2
    /\ out.report = "No tools loaded."
    /\ \E n \in DOMAIN args.before : args.before[n] # 0

\* C12: no load_tools_batch invocation on a router server removes an entry:
\* every tool name the server has before a step is still there after it.
C12_RouterToolsOnlyGrow ==
    [][server.kind = "router" => DOMAIN server.tools \subseteq DOMAIN server'.tools]_vars

\* a second batch on a router that loads a tool name the first batch had
\* already loaded from another id
C12_Witness ==
    /\ op = "load_tools_batch"
    /\ server.kind = "router"
    /\ nbatch = MaxBatchCalls
    /\ out.report = "Loaded"
    /\ \E n \in DOMAIN args.before : args.before[n] # 0 /\ server.tools[n] # args.before[n]

\* C13: a freshly created router server has exactly the two entries
\* search_smartapi and load_tools_batch and no API tool, whatever the id
\* list and the capacity; a freshly created progressive server has exactly
\* the entry load_tools_batch.
C13_FreshServerEntries ==
    /\ op = "create_smart_router_server" =>
          /\ DOMAIN server.tools = {SearchToolName, LoadToolName}
          /\ \A n \in DOMAIN server.tools : server.tools[n] = 0
    /\ op = "create_progressive_server" =>
          /\ DOMAIN server.tools = {LoadToolName}
          /\ \A n \in DOMAIN server.tools : server.tools[n] = 0

\* a router just created over the five-id list with a negative capacity
C13_Witness ==
    /\ op = "create_smart_router_server"
    /\ server.kind = "router"
    /\ args.smartapi_ids = LongRequest
    /\ args.max_tools < 0

\* the first n elements of s, none when n is not positive
FirstN(s, n) == SubSeq(s, 1, IF n < 0 THEN 0 ELSE IF n < Len(s) THEN n ELSE Len(s))

RawName(srv) == IF srv.name = NoName THEN UnknownApi ELSE srv.name

\* C15: the prefix sanitization (lowercase, then one underscore for each
\* character outside [a-z0-9_-]) is total and idempotent: every character
\* of the prefix of every merged instance is in [a-z0-9_-], and sanitizing
\* the prefix again gives the prefix.
C15_SanitizeTotalIdempotent ==
    op = "merge_mcp_servers" =>
        \A i \in DOMAIN args.list_of_servers :
            LET srv == args.list_of_servers[i]
            IN  /\ Range(ApiName(srv)) \subseteq AllowedChars
                /\ Sanitize(ApiName(srv)) = ApiName(srv)

\* a merged instance whose name has an upper-case letter, a space and a
\* symbol, and whose tool carries the sanitized prefix in the aggregate
C15_Witness ==
    /\ op = "merge_mcp_servers"
    /\ out.status = "ok"
    /\ \E i \in DOMAIN args.list_of_servers :
          /\ args.list_of_servers[i].name = <<"A", " ", "!">>
          /\ <<"a", "_", "_", "_", "t">> \in DOMAIN out.tools

\* the call names a set that is not in the table of predefined sets
NamesUnknownSet(a) == a.api_set # NoApiSet /\ a.api_set \notin DOMAIN PredefinedSets

\* the call failed on the lookup of the set, before any query and any build
FailedOnLookup ==
    /\ LastMerged.status = "UnknownApiSet"
    /\ LastMerged.queries = 0
    /\ LastMerged.built = <<>>

SemanticPathFails ==
    \/ ~args.env.avail
    \/ /\ ~CacheHit(args.smartapi_ids, args.before, args.env.avail)
       /\ \/ ~args.env.model_ok
          \/ _build_api_descriptions(args.smartapi_ids).keys = <<>>
    \/ ~args.env.query_ok
    \/ \A i \in DOMAIN args.env.hits : args.env.hits[i] < 0

\* C17: smart_search_smartapi never raises because of the semantic path:
\* whenever that path fails the call returns the category_routing result
\* of the query; the method of every result is semantic_search or
\* category_routing, and a semantic_search result has at least one match.
C17_SearchDegradesToCategoryRouting ==
    op = "smart_search_smartapi" =>
        /\ out.status = "ok"
        /\ out.method \in {"semantic_search", "category_routing"}
        /\ out.method = "semantic_search" =>
              out.matches # {} /\ out.total_found = Cardinality(out.matches)
        /\ SemanticPathFails => out.method = "category_routing"
        /\ out.method = "category_routing" =>
              out.categories = _category_routing(args.query, args.smartapi_ids)

\* the index was built and written to the cache, then the embedding of the
\* query raised, and the call returned matches found by category routing
C17_Witness ==
    /\ op = "smart_search_smartapi"
    /\ args.env.avail /\ ~args.env.query_ok
    /\ disk # args.before
    /\ out.method = "category_routing"
    /\ out.total_found > 0

\* the cache as the last _ensure_semantic_index call found it holds the
\* requested id list, element by element, readable descriptions and a
\* readable index
StoredForRequest ==
    /\ args.before.ids.state = "ok"
    /\ args.before.descriptions.state = "ok"
    /\ args.before.index.state = "ok"
    /\ args.before.ids.ids = args.smartapi_ids

IsIndexCall == op = "_ensure_semantic_index" /\ args.env.avail

\* the three cache files hold the given id list
CacheHolds(d, ids) ==
    /\ d.ids = WrittenFile(ids)
    /\ d.descriptions = WrittenFile(ids)
    /\ d.index = WrittenFile(ids)

\* C18 as stated: the cache is reused if and only if the stored id list is
\* the requested one in the same order and the stored files can be read; in
\* every other case the index is rebuilt and the cache overwritten.
C18_ReuseOrRebuild ==
    IsIndexCall =>
        /\ out.hit <=> StoredForRequest
        /\ ~out.hit => /\ out.status = "ok"
                       /\ CacheHolds(disk, out.ids)
                       /\ out.ids # <<>>

\* the requested ids whose description loads, each once, in request order
Loadable(ids) ==
    SelectSeq(ids, LAMBDA x : load_api_spec(x).status = "ok")

\* C18: the cache is reused, and left as it is, if and only if the stored
\* id list is the requested one in the same order and the stored files can
\* be read; in every other case a rebuild is attempted: when a description
\* loads for at least one requested id and the embedding succeeds, the
\* index is rebuilt over the ids that have a description and the three
\* cache files are overwritten with that build; otherwise the call raises
\* and the cache is left as it was.
C18_ReuseOrAttemptRebuild ==
    IsIndexCall =>
        /\ out.hit <=> StoredForRequest
        /\ out.hit => /\ out.status = "ok"
                      /\ disk = args.before
                      /\ out.ids = args.smartapi_ids
        /\ (~out.hit /\ Loadable(args.smartapi_ids) # <<>> /\ args.env.model_ok) =>
              /\ out.status = "ok"
              /\ Range(out.ids) = Range(Loadable(args.smartapi_ids))
              /\ Len(out.ids) = Cardinality(Range(out.ids))
              /\ CacheHolds(disk, out.ids)
        /\ (~out.hit /\ (Loadable(args.smartapi_ids) = <<>> \/ ~args.env.model_ok)) =>
              /\ out.status # "ok"
              /\ disk = args.before

\* the cache holds the requested ids in another order: the index is
\* rebuilt and the cache overwritten
C18_Witness ==
    /\ IsIndexCall
    /\ args.before.ids = WrittenFile(<<1, 3>>)
    /\ args.before.index.state = "ok"
    /\ args.before.descriptions.state = "ok"
    /\ args.smartapi_ids = <<3, 1>>
    /\ ~out.hit
    /\ CacheHolds(disk, <<3, 1>>)

\* C19: a call that accepts the cache as a hit, whatever other processes
\* are writing or have left half written, gets an id list, descriptions
\* and an index that were written by one build: they are for the same ids
\* in the same order.
C19_HitIsOneBuild ==
    (op = "_ensure_semantic_index" /\ out.status = "ok" /\ out.hit) =>
        /\ out.descriptions = out.ids
        /\ out.index = out.ids

\* the lower-cased description of a candidate id contains a keyword of the
\* category; an id whose document cannot be loaded has no description
Describes(category, id) ==
    /\ load_api_spec(id).status = "ok"
    /\ \E k \in Categories[category] : Contains(k, Lower(Description(id)))

\* C20: for a query containing "gene" in any letter case, _category_routing
\* returns the category bioinformatics with at least one id whenever some
\* candidate id has a loadable description containing a bioinformatics
\* keyword; every id listed under a category is a candidate whose
\* description contains a keyword of that category; a query matching no
\* keyword of any category gets the empty result.
C20_CategoryRouting ==
    op = "_category_routing" =>
        /\ ( /\ Contains(<<"g", "e", "n", "e">>, Lower(args.query))
             /\ \E i \in DOMAIN args.smartapi_ids :
                    Describes("bioinformatics", args.smartapi_ids[i]) ) =>
              /\ "bioinformatics" \in DOMAIN out.categories
              /\ out.categories["bioinformatics"] # <<>>
        /\ \A c \in DOMAIN out.categories : \A i \in DOMAIN out.categories[c] :
              /\ InSeq(out.categories[c][i], args.smartapi_ids)
              /\ Describes(c, out.categories[c][i])
        /\ (\A c \in DOMAIN Categories : \A k \in Categories[c] :
                ~Contains(k, Lower(args.query))) => out.categories = EmptyMap

\* the query "Genes" over three candidates, one of them listed twice, of
\* which only id 1 ("Gene DB") is about genes
C20_Witness ==
    /\ op = "_category_routing"
    /\ args.query = <<"G", "e", "n", "e", "s">>
    /\ args.smartapi_ids = <<6, 1, 1>>
    /\ DOMAIN out.categories = {"bioinformatics"}
    /\ out.categories["bioinformatics"] = <<1>>

\* C21: with exactly one candidate its URL is returned; with three
\* candidates none of which has the CI marker in its URL and only the
\* second of which has the production marker in its description, the
\* phrase "Production server on https", the URL of the second is returned,
\* whether or not the others have a description; with several candidates
\* and no match the selection fails and returns no URL.
C21_EndpointSelection ==
    op = "get_base_server_url" =>
        /\ Len(args.servers) = 1 =>
              out = Endpoint("ok", args.servers[1].url)
        /\ ( /\ Len(args.servers) = 3
             /\ \A i \in 1..3 : ~Contains(CiMarker, args.servers[i].url)
             /\ args.servers[2].description = ProductionPhrase
             /\ \A i \in {1, 3} : ~HasProductionMarker(args.servers[i]) ) =>
              out = Endpoint("ok", args.servers[2].url)
        /\ ( /\ Len(args.servers) > 1
             /\ \A i \in DOMAIN args.servers : ~Matches(args.servers[i], "either") ) =>
              out = Endpoint("NoSuitableEndpoint", <<>>)

\* three candidates, the first without a description, the second with the
\* production phrase, the third a staging server
C21_Witness ==
    /\ op = "get_base_server_url"
    /\ Len(args.servers) = 3
    /\ args.servers[1].description = <<>>
    /\ args.servers[2].description = ProductionPhrase
    /\ ~Matches(args.servers[3], "either")
    /\ out.status = "ok"
    /\ out.url = args.servers[2].url

\* C22: main() runs the server at most once, and only after the server was
\* constructed and its components were counted; the run is the network
\* listener with the configured host and port when the transport is "http"
\* or "sse" and the stdio run for every other value; when the count raises
\* the process exits with code 1 without running the server; a server with
\* no tool and no resource gets a warning and is run like any other.
C22_ServerRunOnceAfterCount ==
    /\ cli.runs <= 1
    /\ cli.runs = 1 <=> cli.pc \in {"running", "returned"}
    /\ cli.runs = 1 =>
          /\ out.status = "ok"
          /\ cli.exit_code = 0
          /\ IF args.transport \in {"http", "sse"}
             THEN cli.mode = [kind |-> "network", transport |-> args.transport,
                              host |-> args.host, port |-> args.port]
             ELSE cli.mode.kind = "stdio"
    /\ cli.pc = "exited" => cli.exit_code = 1 /\ cli.runs = 0
    /\ cli.pc = "raised" => out.status # "ok" /\ cli.runs = 0
    /\ cli.warned => cli.pc \in {"counted", "running", "returned"} /\ cli.exit_code = 0

\* a server without any tool, warned about and then run on the sse listener
C22_Witness ==
    /\ cli.pc = "running"
    /\ cli.warned
    /\ out.tool_count = 0
    /\ cli.mode.kind = "network"
    /\ cli.mode.transport = "sse"
    /\ cli.mode.port = 8001

\* the registry gives the nested call's query the answer it gave the first
SameAnswer ==
    \/ args.qres2 = args.qres
    \/ Outcomes2(args, RoutingPlan(args, args.smart_routing, args.qres)) = {NoQuery}

IsSmallRoutingCall ==
    /\ op = "get_smart_mcp_server_with_routing"
    /\ Len(out.available) < medium_api_threshold
    /\ SameAnswer

\* C23: for every argument combination whose selection has fewer than 10
\* ids, get_smart_mcp_server_with_routing builds the same set of ids as
\* get_merged_mcp_server called with the same arguments and the same answer
\* of the registry, and fails in the same cases.
C23_RoutingBuildsWhatMergedBuilds ==
    IsSmallRoutingCall =>
        \E order \in CallOrders(args, args.qres) :
            /\ get_merged_mcp_server(args, args.qres, order).status = out.merged.status
            /\ Range(get_merged_mcp_server(args, args.qres, order).built)
                   = Range(out.merged.built)

\* C24: when an explicit single id is supplied to get_merged_mcp_server, the
\* servers built and the outcome of the call are the same for every
\* behaviour of the registry query (a result list, an empty result, or a
\* failure).
C24_ExplicitIdIgnoresQuery ==
    (op = "get_merged_mcp_server" /\ args.smartapi_id # 0) =>
        \A qres \in QueryOutcomes :
            \E order \in CallOrders(args, qres) :
                /\ get_merged_mcp_server(args, qres, order).status = out.status
                /\ get_merged_mcp_server(args, qres, order).built = out.built

\* C25: the adaptive loader chooses its strategy from the deduplicated,
\* exclusion-applied id list: the strategy is the one of the number of
\* distinct ids left after exclusion, however often an id is repeated.
C25_StrategyOfDistinctIds ==
    (op = "get_smart_mcp_server_with_routing" /\ out.strategy # "none") =>
        out.strategy = Strategy(args.smart_routing, Cardinality(Range(out.available)))

\* the instances of the merged list have pairwise distinct sanitized prefixes
DistinctPrefixes(list) ==
    \A i, j \in DOMAIN list : i # j => ApiName(list[i]) # ApiName(list[j])

\* C26: in every aggregate merge_mcp_servers produces from instances with
\* pairwise distinct sanitized prefixes, no final tool name is the name of
\* tools of two different instances.
C26_NoSharedFinalName ==
    (/\ op = "merge_mcp_servers"
     /\ out.status = "ok"
     /\ DistinctPrefixes(args.list_of_servers))
    => \A i, j \in DOMAIN args.list_of_servers :
          i # j => NewNames(args.list_of_servers[i], args.list_of_servers[i].tools)
                   \cap NewNames(args.list_of_servers[j], args.list_of_servers[j].tools) = {}

\* C27: after any sequence of load_tools_batch invocations on a router or
\* progressive server, the names search_smartapi and load_tools_batch still
\* denote the control tools: no loaded API tool has replaced one of them.
C27_ControlToolsStay ==
    server.kind # "none" =>
        /\ LoadToolName \in DOMAIN server.tools
        /\ server.tools[LoadToolName] = 0
        /\ server.kind = "router" =>
              /\ SearchToolName \in DOMAIN server.tools
              /\ server.tools[SearchToolName] = 0

\* C28: after _ensure_semantic_index has rebuilt and persisted the index for
\* a requested id list, the next call with the same list, the cache files
\* being as the rebuild left them, is a cache hit and rebuilds nothing.
C28_RebuildThenHit ==
    (IsIndexCall /\ out.status = "ok" /\ ~out.hit) =>
        /\ _ensure_semantic_index(args.smartapi_ids, disk, TRUE, TRUE).hit
        /\ _ensure_semantic_index(args.smartapi_ids, disk, TRUE, TRUE).disk = disk

IsBuildRequest == op \in {"start_merged", "start_batch", "build", "merge"}

\* the ids of the request whose build raises
FailedBuilds(ids) == {ids[k] : k \in {j \in DOMAIN ids : ids[j] \in FailingIds}}

\* C29: in get_merged_mcp_server and in load_tools_batch the merge pass
\* starts only after every build of the request has finished; in
\* get_merged_mcp_server the failure of a build means that no merge happens
\* and no aggregate, not even a partial one, is returned.
C29_MergeAfterAllBuilds ==
    IsBuildRequest =>
        /\ out.merges <= 1
        /\ out.merges = 1 =>
              /\ out.i > Len(out.ids)
              /\ out.attempted = Available(out.ids, args.excl)
        /\ (args.kind = "merged" /\ FailedBuilds(out.attempted) # {}) =>
              /\ out.merges = 0
              /\ out.phase = "raised"
              /\ out.result.tools = EmptyMap
        /\ (args.kind = "merged" /\ out.phase = "done") =>
              FailedBuilds(Available(out.ids, args.excl)) = {}

\* get_merged_mcp_server has built one server, the build of the next id
\* has failed, and the call has ended without a merge
C29_Witness ==
    /\ IsBuildRequest
    /\ args.kind = "merged"
    /\ out.phase = "raised"
    /\ Len(out.servers) = 1
    /\ out.attempted = <<1, 4>>
    /\ out.merges = 0

IsRegistryRequest == op \in {"search_apis", "get_api_spec"}

\* C30: a SmartAPIRegistry request made while the registry is not inside an
\* active async context, never entered or already exited, raises
\* RuntimeError and sends no HTTP request; inside the context the session is
\* open, and after the context exits, normally or by an exception, the
\* session is closed.
C30_RequestsNeedActiveContext ==
    /\ (IsRegistryRequest /\ args.before.depth = 0) =>
          /\ out.status = "RuntimeError"
          /\ registry.requests = args.before.requests
    /\ (registry.depth > 0 /\ registry.entered = 1) => registry.session = "open"
    /\ (op = "__aexit__" /\ registry.depth = 0) => registry.session = "closed"

====
